---- MODULE Spec2Model ----
(***************************************************************************)
(* A model of src/src/main.rs: RepoRecipe (create, destroy, commit) and    *)
(* main.  A repository is its branch map and its commit store; a build     *)
(* script is a sequence of commit operations.  Every fallible call of the  *)
(* source (each `?`, each `.ok()`) can fail: the step that fails is an     *)
(* input of the action that models the call's handler.                     *)
(***************************************************************************)
EXTENDS Integers, Sequences, FiniteSets, TLC

\* ------------------------------------------------------------------ bounds
\* Longest enumerated script.
MaxOps == 2
\* Latest second the clock reaches (commit signatures carry the time).
MaxTime == 1
\* Injected failures per behaviour.
MaxFaults == 1
\* Times the program is executed on the same filesystem.
MaxRuns == 2

\* ------------------------------------------------------------------ inputs
Branches == {"a", "b"}
Messages == {"m"}
MergeLists == {<<>>, <<"a">>, <<"b">>, <<"a", "b">>}

Op(b, m, ms) == [branch |-> b, message |-> m, merges |-> ms]

Ops == {Op(b, m, ms) : b \in Branches, m \in Messages, ms \in MergeLists}

EnumScripts == UNION {[1..n -> Ops] : n \in 0..MaxOps}

\* The concrete scenarios of the specification's section 8.
LinearScript == <<Op("a", "m1", <<>>), Op("a", "m2", <<>>)>>
MergeScript ==
  <<Op("x", "root", <<>>), Op("y", "root2", <<>>), Op("z", "merge", <<"x", "y">>)>>
GhostScript == <<Op("a", "m", <<"ghost">>)>>
\* A branch named twice in merges, and two branches at the same commit.
DuplicateScript ==
  <<Op("a", "m", <<>>), Op("b", "m", <<"a", "a">>), Op("c", "m", <<"a", "b", "b">>)>>

\* lines 98-108
LongDiamond ==
  <<Op("bottom", "bottom", <<>>),
    Op("a", "a1", <<"bottom">>),
    Op("a", "a2", <<>>),
    Op("a", "a3", <<>>),
    Op("b", "b1", <<"bottom">>),
    Op("b", "b2", <<>>),
    Op("b", "b3", <<>>),
    Op("top", "top", <<"a", "b">>)>>

\* lines 111-143
IdDefinition ==
  <<Op("dev1", "doc1", <<>>),
    Op("dev2", "doc1-k2", <<"dev1">>),
    Op("dev1", "doc1-k1", <<>>),
    Op("dev1", "id1", <<"dev2">>),
    Op("dev1", "doc2", <<>>),
    Op("dev3", "doc2-k3", <<"dev1">>),
    Op("dev2", "doc2-k2", <<"dev1">>),
    Op("dev1", "doc2-k1", <<>>),
    Op("dev1", "id2", <<"dev2", "dev3">>),
    Op("dev3", "doc3", <<>>),
    Op("dev2", "doc3-k2", <<"dev3">>),
    Op("dev3", "doc3-k3", <<>>),
    Op("dev1", "id3", <<"dev2">>),
    Op("top", "top", <<"dev1", "dev2", "dev3">>)>>

\* lines 112-139: the signatures each attestation refers to, by its comment
Attestations ==
  {<<"id1", "doc1-k1">>, <<"id1", "doc1-k2">>,
   <<"id2", "doc2-k1">>, <<"id2", "doc2-k2">>, <<"id2", "doc2-k3">>,
   <<"id3", "doc3-k2">>, <<"id3", "doc3-k3">>}

Recipe(n, s) == [name |-> n, script |-> s]

\* lines 98-144: the two recipes main builds
MainPlan == <<Recipe("long-diamond", LongDiamond), Recipe("id-definition", IdDefinition)>>

Workspaces == {"w1", "w2", "long-diamond", "id-definition"}

\* What main is run with: the recipes it builds, in order.
Plans ==
  {<<Recipe("w1", s)>> : s \in EnumScripts \cup {LinearScript, MergeScript, GhostScript, DuplicateScript}}
  \cup {<<Recipe("w1", s), Recipe("w2", s)>> : s \in {LinearScript, MergeScript}}

\* ------------------------------------------------------------------- state
VARIABLES
  plan,    \* the recipes main builds (fixed input)
  fs,      \* repos/<name>: the repository of each workspace
  clock,   \* the wall clock, in seconds
  faults,  \* failures injected so far
  runs,    \* executions of the program so far
  idx,     \* main: the recipe being built
  phase,   \* "create" | "script" | "exited"
  pc,      \* the script's next operation
  exit,    \* what main returned
  hist     \* one record per create() invocation

vars == <<plan, fs, clock, faults, runs, idx, phase, pc, exit, hist>>

\* -------------------------------------------------------------- repository
NoBranches == [b \in {} |-> 0]

NoRepo == [exists |-> FALSE, tree |-> FALSE, branches |-> NoBranches, commits |-> <<>>]

\* Repository::init: a new directory becomes an empty repository; an existing
\* repository is reinitialised and keeps its refs and objects.
InitRepo(repo) == [repo EXCEPT !.exists = TRUE]

\* remove_dir_all
RemoveDir(repo) == NoRepo

NoErr == [variant |-> "None", code |-> "None"]
GitErr(code) == [variant |-> "Git", code |-> code]
IoErr == [variant |-> "Io", code |-> "Other"]

\* ------------------------------------------------------------------ commit
CommitSteps ==
  {"open", "signature", "tree", "find_tree", "find_target", "find_merge",
   "find_parent", "write_commit", "find_commit", "branch"}

\* Mutant of TargetParent: a branch that is absent takes some existing branch
\* (as a HEAD would be) for its first parent.
TargetParentAny(br, branch, f) ==
  IF branch \in DOMAIN br /\ f # "find_target" THEN <<branch>>
  ELSE IF DOMAIN br # {} THEN <<CHOOSE b \in DOMAIN br : TRUE>> ELSE <<>>

\* lines 70-72: the target branch, when its lookup succeeds; any error of the
\* lookup is dropped by .ok()
TargetParent(br, branch, f) ==
  IF branch \in DOMAIN br /\ f # "find_target" THEN <<branch>> ELSE <<>>

\* lines 73-75: a merge parent's lookup fails when the branch is absent
MissingMerge(br, merges) == \E i \in 1..Len(merges) : merges[i] \notin DOMAIN br

\* Mutant of MergeParents: a failed lookup is dropped, as the target's is.
MergeParentsSkipMissing(br, merges) ==
  [ok |-> TRUE, branches |-> SelectSeq(merges, LAMBDA b : b \in DOMAIN br)]

\* Mutant of MergeParents: the loop ends at the first lookup that fails, and
\* the commit goes on with the parents found so far.
MergeParentsStopAtMissing(br, merges) ==
  [ok |-> TRUE,
   branches |-> SubSeq(merges, 1,
     Cardinality({i \in 1..Len(merges) : \A j \in 1..i : merges[j] \in DOMAIN br}))]

\* Mutant of MergeParents: only the first name of merges is looked up.
MergeParentsFirstOnly(br, merges) ==
  IF merges = <<>> THEN [ok |-> TRUE, branches |-> <<>>]
  ELSE IF merges[1] \notin DOMAIN br THEN [ok |-> FALSE, branches |-> <<>>]
  ELSE [ok |-> TRUE, branches |-> <<merges[1]>>]

\* lines 73-75: the loop stops at the first lookup that fails
MergeParents(br, merges) ==
  IF MissingMerge(br, merges)
  THEN [ok |-> FALSE, branches |-> <<>>]
  ELSE [ok |-> TRUE, branches |-> merges]

\* lines 69-75
ParentBranches(br, op, f) ==
  TargetParent(br, op.branch, f) \o MergeParents(br, op.merges).branches

\* Mutant of ParentCommits: each parent is the object after the branch's tip.
ParentCommitsNextOid(br, pb) == [i \in 1..Len(pb) |-> br[pb[i]] + 1]

\* Mutant of ParentCommits: the parents in reverse order.
ParentCommitsReversed(br, pb) == [i \in 1..Len(pb) |-> br[pb[Len(pb) + 1 - i]]]

\* lines 76-81
ParentCommits(br, pb) == [i \in 1..Len(pb) |-> br[pb[i]]]

\* Mutant of WriteCommit: every write adds an object, whatever the store holds.
WriteCommitAlwaysNew(commits, c) ==
  [commits |-> Append(commits, c), oid |-> Len(commits) + 1]

\* Mutant of WriteCommit: the new commit takes the place of the store's last
\* one and keeps its parents (the last commit is amended).
WriteCommitAmend(commits, c) ==
  IF commits = <<>>
  THEN [commits |-> <<c>>, oid |-> 1]
  ELSE [commits |->
          [commits EXCEPT ![Len(commits)] = [c EXCEPT !.parents = commits[Len(commits)].parents]],
        oid |-> Len(commits)]

\* lines 83-90: the identifier is derived from the commit's content, so writing
\* a commit the store already holds yields the identifier it has.
WriteCommit(commits, c) ==
  IF \E i \in 1..Len(commits) : commits[i] = c
  THEN [commits |-> commits, oid |-> CHOOSE i \in 1..Len(commits) : commits[i] = c]
  ELSE [commits |-> Append(commits, c), oid |-> Len(commits) + 1]

\* Mutant of MoveBranch: an existing branch is not moved (force = false).
MoveBranchNoForce(br, branch, oid) ==
  [b \in DOMAIN br \cup {branch} |-> IF b \in DOMAIN br THEN br[b] ELSE oid]

\* Mutant of MoveBranch: the branches named as parents are moved too (a
\* fast-forward of what was merged).
MoveBranchAll(br, branch, oid) == [b \in DOMAIN br \cup {branch} |-> oid]

\* line 92: repo.branch(branch, &commit, true).  (A refusal of the library to
\* move a branch, as for the branch HEAD names, is the failure of step "branch".)
MoveBranch(br, branch, oid) ==
  [b \in DOMAIN br \cup {branch} |-> IF b = branch THEN oid ELSE br[b]]

\* The steps of commit() that are executed before step f is.
Reached(br, op, f) ==
  CASE f = "find_merge" -> op.merges # <<>>
    [] f = "find_parent" ->
         ~MissingMerge(br, op.merges) /\ ParentBranches(br, op, f) # <<>>
    [] f \in {"write_commit", "find_commit", "branch"} -> ~MissingMerge(br, op.merges)
    [] OTHER -> TRUE

\* What commit() returns and leaves when a `?` propagates an error.
Failure(repo, e, steps) ==
  [repo |-> repo, ok |-> FALSE, oid |-> 0, err |-> e, failed |-> steps]

\* lines 65-94, with step f failing (f = "none": no call fails on its own)
CommitOutcome(repo, op, f, now) ==
  LET br == repo.branches
      dropped == IF f = "find_target" THEN {f} ELSE {}
      withTree == [repo EXCEPT !.tree = TRUE]
      pb == ParentBranches(br, op, f)
      c == [message |-> op.message, parents |-> ParentCommits(br, pb), time |-> now]
      w == WriteCommit(repo.commits, c)
      written == [withTree EXCEPT !.commits = w.commits]
  IN CASE f \in {"open", "signature", "tree"} -> Failure(repo, GitErr("Other"), {f})
       [] f \in {"find_tree", "find_merge"} -> Failure(withTree, GitErr("Other"), {f})
       [] f \notin {"find_tree", "find_merge"} /\ ~MergeParents(br, op.merges).ok ->
            Failure(withTree, GitErr("NotFound"), dropped \cup {"find_merge"})
       [] f \in {"find_parent", "write_commit"} -> Failure(withTree, GitErr("Other"), {f})
       [] f \in {"find_commit", "branch"} -> Failure(written, GitErr("Other"), {f})
       [] OTHER ->
            [repo |-> [written EXCEPT !.branches = MoveBranch(br, op.branch, w.oid)],
             ok |-> TRUE, oid |-> w.oid, err |-> NoErr, failed |-> dropped]

\* ----------------------------------------------------------------- history
RECURSIVE Shape(_, _)
\* A commit without its identifier and time: its message and its parents' shapes.
Shape(commits, oid) ==
  <<commits[oid].message,
    [i \in 1..Len(commits[oid].parents) |-> Shape(commits, commits[oid].parents[i])]>>

\* The branch-to-commit structure of a repository.
Structure(repo) == [b \in DOMAIN repo.branches |-> Shape(repo.commits, repo.branches[b])]

\* What a finished build leaves in the history: its outcome, without the detail
\* of its operations.
Summary(rec) == [rec EXCEPT !.log = <<>>, !.err = NoErr, !.failed = {}]

\* For each parent of the commit an operation created, the earlier operations of
\* the same build that created it.
CreatedBy(log, parents) ==
  [p \in 1..Len(parents) |-> {e \in 1..Len(log) : log[e].ok /\ log[e].oid = parents[p]}]

Cur == hist[Len(hist)]
CurRecipe == plan[idx]
LastOp == Cur.log[Len(Cur.log)]

\* ----------------------------------------------------------------- actions
Init ==
  /\ plan \in Plans
  /\ fs = [w \in Workspaces |-> NoRepo]
  /\ clock = 0
  /\ faults = 0
  /\ runs = 1
  /\ idx = 1
  /\ phase = "create"
  /\ pc = 1
  /\ exit = "None"
  /\ hist = <<>>

CreateSteps == {"destroy", "create_dir_all", "init"}

\* lines 41-44 as create() uses them (line 34): the error is dropped
Destroy(repo, f) == IF f = "destroy" THEN repo ELSE RemoveDir(repo)

\* lines 33-36: create() up to the call of the script
Create(f) ==
  /\ phase = "create"
  /\ f \in CreateSteps \cup {"none"}
  /\ f # "none" => faults < MaxFaults
  \* an absent directory makes remove_dir_all fail by itself, to no effect
  /\ f = "destroy" => fs[CurRecipe.name].exists
  /\ faults' = IF f = "none" THEN faults ELSE faults + 1
  /\ LET name == CurRecipe.name
         removed == Destroy(fs[name], f)
         failed == f \in {"create_dir_all", "init"}
         repo == IF failed THEN removed ELSE InitRepo(removed)
     IN /\ fs' = [fs EXCEPT ![name] = repo]
        /\ phase' = IF failed THEN "exited" ELSE "script"
        /\ exit' = IF failed THEN "Err" ELSE exit
        /\ hist' = Append([i \in 1..Len(hist) |-> Summary(hist[i])],
             [name |-> name, script |-> CurRecipe.script,
              fresh |-> repo.branches = NoBranches /\ repo.commits = <<>>,
              status |-> IF failed THEN "err" ELSE "running",
              err |-> IF f = "create_dir_all" THEN IoErr
                      ELSE IF f = "init" THEN GitErr("Other") ELSE NoErr,
              failed |-> IF f = "none" THEN {} ELSE {f},
              log |-> <<>>,
              shape |-> <<>>,
              dropped |-> FALSE,
              final |-> Structure(repo)])
  /\ pc' = 1
  /\ UNCHANGED <<plan, clock, runs, idx>>

\* Mutant of AfterCommit: the script drops a commit's error and goes on.
AfterCommitIgnoreError(out, at) == [phase |-> "script", pc |-> at + 1]

\* lines 99-106, 113-141 and 37: the `?` after each commit of a script, and
\* create()'s own: an error ends the script, the build and main
AfterCommit(out, at) ==
  IF out.ok THEN [phase |-> "script", pc |-> at + 1] ELSE [phase |-> "exited", pc |-> at]

\* lines 65-94: the script's next commit operation
Commit(f, now) ==
  /\ phase = "script"
  /\ pc <= Len(CurRecipe.script)
  /\ f \in CommitSteps \cup {"none"}
  /\ f # "none" => faults < MaxFaults
  /\ now \in {clock, clock + 1}
  /\ now <= MaxTime
  /\ LET name == CurRecipe.name
         op == CurRecipe.script[pc]
         repo == fs[name]
         out == CommitOutcome(repo, op, f, now)
         after == AfterCommit(out, pc)
         entry == [op |-> op, at |-> pc, fault |-> f, pre |-> repo.branches,
                   preCommits |-> repo.commits, ok |-> out.ok, oid |-> out.oid,
                   err |-> out.err, failed |-> out.failed]
     IN /\ f # "none" => Reached(repo.branches, op, f)
        /\ fs' = [fs EXCEPT ![name] = out.repo]
        /\ phase' = after.phase
        /\ pc' = after.pc
        /\ exit' = IF phase' = "exited" THEN "Err" ELSE exit
        /\ hist' = [hist EXCEPT ![Len(hist)] =
             [@ EXCEPT !.log = Append(@, entry),
                       !.shape = Append(@,
                         [ok |-> out.ok,
                          from |-> IF out.ok
                                   THEN CreatedBy(Cur.log, out.repo.commits[out.oid].parents)
                                   ELSE <<>>]),
                       !.status = IF phase' = "exited" THEN "err" ELSE "running",
                       !.err = out.err,
                       !.dropped = @ \/ (out.ok /\ out.failed # {}),
                       !.final = IF after.phase = "exited"
                                 THEN Structure(out.repo) ELSE @]]
  /\ clock' = now
  /\ faults' = IF f = "none" THEN faults ELSE faults + 1
  /\ UNCHANGED <<plan, runs, idx>>

\* lines 38 and 109, 144-146: create() returns Ok and main goes on
CreateReturn ==
  /\ phase = "script"
  /\ pc > Len(CurRecipe.script)
  /\ hist' = [hist EXCEPT ![Len(hist)] =
       [@ EXCEPT !.status = "ok", !.final = Structure(fs[Cur.name])]]
  /\ IF idx < Len(plan)
     THEN /\ idx' = idx + 1
          /\ phase' = "create"
          /\ exit' = exit
     ELSE /\ idx' = idx
          /\ phase' = "exited"
          /\ exit' = "Ok"
  /\ UNCHANGED <<plan, fs, clock, faults, runs, pc>>

\* line 97: the program is executed again, on the filesystem as it was left
Rerun ==
  /\ phase = "exited"
  /\ runs < MaxRuns
  /\ runs' = runs + 1
  /\ idx' = 1
  /\ phase' = "create"
  /\ exit' = "None"
  /\ UNCHANGED <<plan, fs, clock, faults, pc, hist>>

Next ==
  \/ \E f \in CreateSteps \cup {"none"} : Create(f)
  \/ \E f \in CommitSteps \cup {"none"}, now \in 0..MaxTime : Commit(f, now)
  \/ CreateReturn
  \/ Rerun

Spec == Init /\ [][Next]_vars

\* main as it is written: its two recipes
InitMain ==
  /\ plan = MainPlan
  /\ fs = [w \in Workspaces |-> NoRepo]
  /\ clock = 0
  /\ faults = 0
  /\ runs = 1
  /\ idx = 1
  /\ phase = "create"
  /\ pc = 1
  /\ exit = "None"
  /\ hist = <<>>

SpecMain == InitMain /\ [][Next]_vars

\* lines 98-109: main's first recipe alone, up to its create()
InitLongDiamond ==
  /\ plan = <<Recipe("long-diamond", LongDiamond)>>
  /\ fs = [w \in Workspaces |-> NoRepo]
  /\ clock = 0
  /\ faults = 0
  /\ runs = 1
  /\ idx = 1
  /\ phase = "create"
  /\ pc = 1
  /\ exit = "None"
  /\ hist = <<>>

SpecLongDiamond == InitLongDiamond /\ [][Next]_vars

\* ------------------------------------------------------------------ claims
\* The state right after a commit operation of the build in progress.
HasOp == Len(hist) > 0 /\ Cur.log # <<>>
Repo == fs[Cur.name]
Created == Repo.commits[LastOp.oid]
Exists(pre, names) == \A i \in 1..Len(names) : names[i] \in DOMAIN pre
Tips(pre, names) == [i \in 1..Len(names) |-> pre[names[i]]]

\* C1: a commit to an existing branch with k existing merge parents has exactly
\* k+1 parents: the branch's prior tip, then the merge parents' tips in order.
C1_MergeArity ==
  (HasOp /\ LastOp.ok /\ LastOp.op.branch \in DOMAIN LastOp.pre
     /\ Exists(LastOp.pre, LastOp.op.merges))
  => Created.parents = <<LastOp.pre[LastOp.op.branch]>> \o Tips(LastOp.pre, LastOp.op.merges)

\* C1, for the operations whose target lookup did not fail (supplementary).
C1_UnlessLookupDropped ==
  (HasOp /\ LastOp.ok /\ LastOp.failed = {} /\ LastOp.op.branch \in DOMAIN LastOp.pre
     /\ Exists(LastOp.pre, LastOp.op.merges))
  => Created.parents = <<LastOp.pre[LastOp.op.branch]>> \o Tips(LastOp.pre, LastOp.op.merges)

\* C2: a commit to a branch that does not exist, with no merge parents, creates
\* a commit with zero parents, whatever else the repository holds.
C2_RootCommit ==
  (HasOp /\ LastOp.ok /\ LastOp.op.branch \notin DOMAIN LastOp.pre /\ LastOp.op.merges = <<>>)
  => Created.parents = <<>>

C2_Witness ==
  /\ HasOp /\ LastOp.ok
  /\ LastOp.op.branch \notin DOMAIN LastOp.pre
  /\ LastOp.op.merges = <<>>
  /\ DOMAIN LastOp.pre # {}
  /\ LastOp.preCommits # <<>>
  /\ Created.parents = <<>>

\* C3: of two successful commits to the same branch with no commit to that branch
\* between them, the second's first parent is the commit the first created, and
\* its sole parent when the second names no merge parents.
C3_LinearHistory ==
  Len(hist) > 0 =>
    \A i, j \in 1..Len(Cur.log) :
      (/\ i < j
       /\ Cur.log[i].ok /\ Cur.log[j].ok
       /\ Cur.log[i].op.branch = Cur.log[j].op.branch
       /\ \A k \in (i + 1)..(j - 1) : Cur.log[k].op.branch # Cur.log[i].op.branch)
      => LET parents == Repo.commits[Cur.log[j].oid].parents
         IN /\ Len(parents) >= 1
            /\ parents[1] = Cur.log[i].oid
            /\ Cur.log[j].op.merges = <<>> => parents = <<Cur.log[i].oid>>

\* C3, for the builds in which no target lookup failed (supplementary).
C3_UnlessLookupDropped ==
  (Len(hist) > 0 /\ ~Cur.dropped) =>
    \A i, j \in 1..Len(Cur.log) :
      (/\ i < j
       /\ Cur.log[i].ok /\ Cur.log[j].ok
       /\ Cur.log[i].op.branch = Cur.log[j].op.branch
       /\ \A k \in (i + 1)..(j - 1) : Cur.log[k].op.branch # Cur.log[i].op.branch)
      => LET parents == Repo.commits[Cur.log[j].oid].parents
         IN /\ Len(parents) >= 1
            /\ parents[1] = Cur.log[i].oid
            /\ Cur.log[j].op.merges = <<>> => parents = <<Cur.log[i].oid>>

\* C4: a commit that names a merge parent which does not exist returns a Git
\* error (the lookup's NotFound, when no earlier call failed), and leaves the
\* branch map and the commit store as they were.
C4_MissingMergeParent ==
  (HasOp /\ ~Exists(LastOp.pre, LastOp.op.merges))
  => /\ ~LastOp.ok
     /\ LastOp.err.variant = "Git"
     /\ LastOp.fault = "none" => LastOp.err = GitErr("NotFound")
     /\ Repo.branches = LastOp.pre
     /\ Repo.commits = LastOp.preCommits
     /\ Cur.status = "err"

C4_Witness ==
  /\ HasOp /\ ~LastOp.ok
  /\ LastOp.fault = "none"
  /\ ~Exists(LastOp.pre, LastOp.op.merges)
  /\ LastOp.op.branch \notin DOMAIN Repo.branches
  /\ LastOp.err = GitErr("NotFound")

\* C5: after a successful commit the branch exists and points to the commit
\* the operation created, whose identifier the operation returned.
C5_BranchAtNewCommit ==
  (HasOp /\ LastOp.ok)
  => /\ LastOp.op.branch \in DOMAIN Repo.branches
     /\ Repo.branches[LastOp.op.branch] = LastOp.oid
     /\ LastOp.oid \in 1..Len(Repo.commits)
     /\ Created.message = LastOp.op.message
     /\ Created.time = clock
     /\ LastOp.oid \in 1..Len(LastOp.preCommits) => LastOp.preCommits[LastOp.oid] = Created

C5_Witness ==
  /\ HasOp /\ LastOp.ok
  /\ LastOp.op.branch \in DOMAIN LastOp.pre
  /\ LastOp.pre[LastOp.op.branch] # LastOp.oid
  /\ Repo.branches[LastOp.op.branch] = LastOp.oid

\* C6: when a step of a commit operation fails, the operation returns an error
\* and the build ends with it.
C6_NoFailureDropped ==
  (HasOp /\ LastOp.failed # {}) => (~LastOp.ok /\ Cur.status = "err")

\* C7: a script's operations run in order, none after one that failed; a failed
\* build leaves what the operations before the failing one made, and at most
\* the failing operation's commit.
C7_AbortOnFirstError ==
  Len(hist) > 0 =>
    /\ Len(Cur.log) <= Len(Cur.script)
    /\ \A i \in 1..Len(Cur.log) : Cur.log[i].at = i /\ Cur.log[i].op = Cur.script[i]
    /\ \A i \in 1..(Len(Cur.log) - 1) : Cur.log[i].ok
    /\ (Cur.log # <<>> /\ ~LastOp.ok) =>
         /\ Cur.status = "err"
         /\ Repo.branches = LastOp.pre
         /\ \/ Repo.commits = LastOp.preCommits
            \/ \E c \in {Repo.commits[Len(Repo.commits)]} :
                 Repo.commits = Append(LastOp.preCommits, c)

C7_Witness ==
  /\ HasOp /\ ~LastOp.ok
  /\ phase = "exited" /\ exit = "Err"
  /\ Len(Cur.log) = 2 /\ Len(Cur.script) = 3
  /\ Len(Repo.commits) = 2
  /\ DOMAIN Repo.branches = {Cur.script[1].branch}

\* Two finished builds of the same script, each of a workspace that was empty
\* when its script began.
SameScriptFresh(i, j) ==
  /\ hist[i].script = hist[j].script
  /\ hist[i].status = "ok" /\ hist[j].status = "ok"
  /\ hist[i].fresh /\ hist[j].fresh

Isomorphic(i, j) ==
  /\ DOMAIN hist[i].final = DOMAIN hist[j].final
  /\ Len(hist[i].shape) = Len(hist[j].shape)
  /\ \A k \in 1..Len(hist[i].shape) :
       /\ Len(hist[i].shape[k].from) = Len(hist[j].shape[k].from)
       /\ \A p \in 1..Len(hist[i].shape[k].from) :
            hist[i].shape[k].from[p] \cap hist[j].shape[k].from[p] # {}

\* C8: the same script built into two distinct, empty workspaces gives the same
\* branch names, and commits whose parents are, position by position, the
\* commits of the same earlier operations.
C8_Determinism ==
  \A i, j \in 1..Len(hist) :
    (i < j /\ hist[i].name # hist[j].name /\ SameScriptFresh(i, j)) => Isomorphic(i, j)

\* C8, for the builds in which no target lookup failed (supplementary).
C8_UnlessLookupDropped ==
  \A i, j \in 1..Len(hist) :
    (i < j /\ hist[i].name # hist[j].name /\ SameScriptFresh(i, j)
       /\ ~hist[i].dropped /\ ~hist[j].dropped) => Isomorphic(i, j)

\* C9: create() invoked twice on the same workspace name with the same script
\* gives the same final branch-to-commit structure, also when the second
\* invocation's destroy step fails.
C9_IdempotentRebuild ==
  \A i, j \in 1..Len(hist) :
    (/\ i < j
     /\ hist[i].name = hist[j].name /\ hist[i].script = hist[j].script
     /\ hist[i].status = "ok" /\ hist[j].status = "ok")
    => hist[j].final = hist[i].final

\* C9, for the rebuilds of a workspace that destroy removed, in which no target
\* lookup failed (supplementary).
C9_UnlessDestroyFailed ==
  \A i, j \in 1..Len(hist) :
    (/\ i < j
     /\ hist[i].name = hist[j].name /\ hist[i].script = hist[j].script
     /\ hist[i].status = "ok" /\ hist[j].status = "ok"
     /\ ~hist[i].dropped /\ ~hist[j].dropped
     /\ hist[i].fresh /\ hist[j].fresh)
    => hist[j].final = hist[i].final

\* C10: a commit to a branch that does not exist, with k existing merge parents,
\* has exactly their k tips as its parents, in the order listed, and the branch
\* is created pointing at it.
C10_NewBranchMerge ==
  (HasOp /\ LastOp.ok /\ LastOp.op.branch \notin DOMAIN LastOp.pre
     /\ Exists(LastOp.pre, LastOp.op.merges))
  => /\ Created.parents = Tips(LastOp.pre, LastOp.op.merges)
     /\ LastOp.op.branch \in DOMAIN Repo.branches
     /\ Repo.branches[LastOp.op.branch] = LastOp.oid

C10_Witness ==
  /\ HasOp /\ LastOp.ok
  /\ Cur.script = MergeScript /\ Len(Cur.log) = 3
  /\ "z" \notin DOMAIN LastOp.pre
  /\ Len(Created.parents) = 2
  /\ Created.parents = <<LastOp.pre["x"], LastOp.pre["y"]>>
  /\ LastOp.pre["x"] # LastOp.pre["y"]
  /\ Repo.branches["z"] = LastOp.oid

\* C11: the parent list is not deduplicated: a commit has one parent for the
\* target branch, when it existed, and one per name in merges, a commit that is
\* named twice appearing twice.
C11_NoDeduplication ==
  (HasOp /\ LastOp.ok)
  => /\ Len(Created.parents) =
          (IF LastOp.op.branch \in DOMAIN LastOp.pre THEN 1 ELSE 0) + Len(LastOp.op.merges)
     /\ \A i \in 1..Len(LastOp.op.merges) :
          Created.parents[Len(Created.parents) - Len(LastOp.op.merges) + i]
            = LastOp.pre[LastOp.op.merges[i]]

\* C11, for the operations whose target lookup did not fail (supplementary).
C11_UnlessLookupDropped ==
  (HasOp /\ LastOp.ok /\ LastOp.failed = {})
  => /\ Len(Created.parents) =
          (IF LastOp.op.branch \in DOMAIN LastOp.pre THEN 1 ELSE 0) + Len(LastOp.op.merges)
     /\ \A i \in 1..Len(LastOp.op.merges) :
          Created.parents[Len(Created.parents) - Len(LastOp.op.merges) + i]
            = LastOp.pre[LastOp.op.merges[i]]

\* A state in which C11's duplicates occur: a branch named twice and two
\* branches at one commit.
C11_DuplicatesOccur ==
  /\ HasOp /\ LastOp.ok /\ LastOp.failed = {}
  /\ LastOp.op.merges = <<"a", "b", "b">>
  /\ Created.parents = <<LastOp.pre["a"], LastOp.pre["b"], LastOp.pre["b"]>>

\* C12: within a build commits are only added: each commit that was in the store
\* before an operation, successful or failed, is in it afterwards, unchanged.
C12_CommitsAppendOnly ==
  Len(hist) > 0 =>
    \A k \in 1..Len(Cur.log) :
      /\ Len(Cur.log[k].preCommits) <= Len(Repo.commits)
      /\ \A i \in 1..Len(Cur.log[k].preCommits) : Repo.commits[i] = Cur.log[k].preCommits[i]

C12_Witness ==
  /\ HasOp
  /\ Len(Cur.log) = 3 /\ ~LastOp.ok
  /\ Len(Cur.log[2].preCommits) = 1
  /\ Len(Repo.commits) = 3
  /\ Repo.commits[1] = Cur.log[2].preCommits[1]

\* C13: a successful commit moves the branch it names and no other: every other
\* branch exists afterwards exactly when it did before, at the same commit.
C13_OtherBranchesUntouched ==
  (HasOp /\ LastOp.ok)
  => /\ DOMAIN Repo.branches = DOMAIN LastOp.pre \cup {LastOp.op.branch}
     /\ \A b \in DOMAIN LastOp.pre :
          b # LastOp.op.branch => Repo.branches[b] = LastOp.pre[b]

C13_Witness ==
  /\ HasOp /\ LastOp.ok
  /\ Len(LastOp.op.merges) = 2
  /\ \E b \in DOMAIN LastOp.pre :
       /\ b # LastOp.op.branch
       /\ b = LastOp.op.merges[1]
       /\ Repo.branches[b] = LastOp.pre[b]
       /\ Repo.branches[b] # LastOp.oid

\* The build in progress came to its script (create() did not fail before it).
ScriptBegan == Len(hist) > 0 /\ ~(Cur.log = <<>> /\ Cur.status = "err")

\* C14: when create() comes to the script the repository has no branch and no
\* commit, whatever an earlier build left and whether or not destroy succeeded.
C14_EmptyAtScriptStart == ScriptBegan => Cur.fresh

\* C14, for the invocations whose destroy step did not fail (supplementary).
C14_UnlessDestroyFailed == (ScriptBegan /\ "destroy" \notin Cur.failed) => Cur.fresh

\* C15: a commit that names its own target branch in merges, when that branch
\* does not exist, fails at the merge lookup with NotFound (also when the
\* target's own lookup failed and was dropped, unless an earlier call failed);
\* the branch is not created.
C15_SelfMergeOfNewBranch ==
  (HasOp /\ LastOp.op.branch \notin DOMAIN LastOp.pre
     /\ \E i \in 1..Len(LastOp.op.merges) : LastOp.op.merges[i] = LastOp.op.branch)
  => /\ ~LastOp.ok
     /\ LastOp.fault \in {"none", "find_target"} =>
          (LastOp.err = GitErr("NotFound") /\ "find_merge" \in LastOp.failed)
     /\ LastOp.op.branch \notin DOMAIN Repo.branches
     /\ Cur.status = "err"

C15_Witness ==
  /\ HasOp /\ ~LastOp.ok
  /\ LastOp.fault = "none"
  /\ LastOp.op.merges = <<LastOp.op.branch>>
  /\ LastOp.pre # NoBranches
  /\ LastOp.op.branch \notin DOMAIN Repo.branches
  /\ LastOp.failed = {"find_merge"}

\* ---------------------------------------------------- main's two scripts
RECURSIVE Closure(_, _)
\* The commits reachable from the commits of S by parent links.
Closure(commits, S) ==
  LET T == S \cup {commits[i].parents[p] : <<i, p>> \in
                     {<<i, p>> \in S \X (1..4) : p <= Len(commits[i].parents)}}
  IN IF T = S THEN S ELSE Closure(commits, T)

\* The position in a script of the operation with a message.
At(script, message) == CHOOSE k \in 1..Len(script) : script[k].message = message

\* A build of an empty repository in which no call has failed.
NoFailure(rec) == rec.fresh /\ ~rec.dropped /\ rec.status # "err"

Reaches(att, sig) ==
  Len(Cur.log) >= At(IdDefinition, att)
  => Cur.log[At(IdDefinition, sig)].oid
       \in Closure(Repo.commits, {Cur.log[At(IdDefinition, att)].oid})

\* C16: in the id-definition script each attestation commit has among its
\* ancestors every signature commit its comment names.  (Stated for the builds
\* in which no call fails.)
C16_AttestationsReachSignatures ==
  (Len(hist) > 0 /\ Cur.script = IdDefinition /\ NoFailure(Cur))
  => \A r \in Attestations : Reaches(r[1], r[2])

\* C16, but for id3 and doc3-k3 (supplementary).
C16_ExceptDoc3K3 ==
  (Len(hist) > 0 /\ Cur.script = IdDefinition /\ NoFailure(Cur))
  => \A r \in Attestations \ {<<"id3", "doc3-k3">>} : Reaches(r[1], r[2])

\* C17: the long-diamond script, run on an empty repository with no failure,
\* ends with branches bottom, a, b, top and eight commits: bottom a root, a1 and
\* b1 on bottom, a2, a3, b2, b3 each on its predecessor, top on a3 then b3.
C17_LongDiamond ==
  (Len(hist) > 0 /\ Cur.script = LongDiamond /\ Cur.status = "ok" /\ NoFailure(Cur))
  => LET c(k) == Repo.commits[Cur.log[k].oid]
         o(k) == Cur.log[k].oid
     IN /\ Len(Cur.log) = 8
        /\ Len(Repo.commits) = 8
        /\ Cardinality({o(k) : k \in 1..8}) = 8
        /\ \A k \in 1..8 : c(k).message = LongDiamond[k].message
        /\ c(1).parents = <<>>
        /\ c(2).parents = <<o(1)>> /\ c(3).parents = <<o(2)>> /\ c(4).parents = <<o(3)>>
        /\ c(5).parents = <<o(1)>> /\ c(6).parents = <<o(5)>> /\ c(7).parents = <<o(6)>>
        /\ c(8).parents = <<o(4), o(7)>>
        /\ Repo.branches = [b \in {"bottom", "a", "b", "top"} |->
             CASE b = "bottom" -> o(1) [] b = "a" -> o(4) [] b = "b" -> o(7) [] b = "top" -> o(8)]

C17_Witness ==
  /\ Len(hist) > 0 /\ Cur.script = LongDiamond /\ Cur.status = "ok" /\ NoFailure(Cur)
  /\ Len(Repo.commits) = 8
  /\ DOMAIN Repo.branches = {"bottom", "a", "b", "top"}
  /\ Len(Repo.commits[Repo.branches["top"]].parents) = 2

\* ------------------------------------------------------- the commit store
\* C18: every successful commit creates an object the store did not hold: after
\* n successful operations the store holds n commits.  (Stated for the builds
\* of an empty repository in which no call fails.)
C18_EveryCommitNew ==
  (HasOp /\ NoFailure(Cur))
  => /\ \A k \in 1..Len(Cur.log) : Cur.log[k].oid > Len(Cur.log[k].preCommits)
     /\ Len(Repo.commits) = Len(Cur.log)

\* C18, amended: a successful commit adds one object unless the store holds a
\* commit of the same message, parents and second, and then it adds nothing and
\* returns that commit; after a build without failure the store holds as many
\* commits as the operations wrote different ones.
C18_NewUnlessIdentical ==
  /\ (HasOp /\ LastOp.ok)
     => IF \E i \in 1..Len(LastOp.preCommits) : LastOp.preCommits[i] = Created
        THEN /\ Repo.commits = LastOp.preCommits
             /\ LastOp.oid <= Len(LastOp.preCommits)
        ELSE /\ Repo.commits = Append(LastOp.preCommits, Created)
             /\ LastOp.oid = Len(LastOp.preCommits) + 1
  /\ (HasOp /\ NoFailure(Cur))
     => Len(Repo.commits) =
          Cardinality({Repo.commits[Cur.log[k].oid] : k \in 1..Len(Cur.log)})
  /\ Len(hist) > 0
     => \A i, j \in 1..Len(Repo.commits) : Repo.commits[i] = Repo.commits[j] => i = j

C18_Witness ==
  /\ HasOp /\ NoFailure(Cur)
  /\ Len(Cur.log) = 2 /\ LastOp.ok
  /\ LastOp.op.branch # Cur.log[1].op.branch
  /\ LastOp.oid = Cur.log[1].oid
  /\ Len(Repo.commits) = 1
  /\ DOMAIN Repo.branches = {"a", "b"}

\* C19: the commit graph is acyclic: the parents of a commit are commits the
\* store held before the operation that created it, no commit is its own
\* ancestor, and every branch points to a commit of the store.
C19_Acyclic ==
  Len(hist) > 0 =>
    /\ \A i \in 1..Len(Repo.commits) : \A p \in 1..Len(Repo.commits[i].parents) :
         Repo.commits[i].parents[p] \in 1..(i - 1)
    /\ \A k \in 1..Len(Cur.log) :
         (Cur.log[k].ok /\ Cur.log[k].oid > Len(Cur.log[k].preCommits))
         => \A p \in 1..Len(Repo.commits[Cur.log[k].oid].parents) :
              Repo.commits[Cur.log[k].oid].parents[p] \in 1..Len(Cur.log[k].preCommits)
    /\ \A b \in DOMAIN Repo.branches : Repo.branches[b] \in 1..Len(Repo.commits)

C19_Witness ==
  /\ HasOp /\ LastOp.ok
  /\ Len(Repo.commits) = 3
  /\ LastOp.oid = 3
  /\ \E p \in 1..Len(Created.parents) : Created.parents[p] = 2
  /\ Repo.commits[2].parents # <<>>
  /\ Repo.branches[LastOp.op.branch] = 3

\* The commits no branch reaches.
Orphans(repo) ==
  (1..Len(repo.commits))
    \ Closure(repo.commits, {repo.branches[b] : b \in DOMAIN repo.branches})

\* C20: after successful operations on an empty repository every commit is a
\* branch tip or an ancestor of one.
C20_NoOrphan ==
  (HasOp /\ Cur.fresh /\ \A k \in 1..Len(Cur.log) : Cur.log[k].ok)
  => Orphans(Repo) = {}

\* C20, for the builds in which no target lookup failed (supplementary).
C20_UnlessLookupDropped ==
  (HasOp /\ Cur.fresh /\ ~Cur.dropped /\ \A k \in 1..Len(Cur.log) : Cur.log[k].ok)
  => Orphans(Repo) = {}

====
